---- MODULE Spec2Model ----
(***************************************************************************)
(* Model of src/rbac_pinecone_demo.py: the RBAC registry (RBACSystem), the *)
(* users' role field, and the facades built on has_permission              *)
(* (ECommerceSystem.view_orders / vector_search,                           *)
(* VectorManagement.create_vector).  The embedding encoder and the vector  *)
(* store are external collaborators: each call to them is recorded in the  *)
(* call's trace and its outcome is chosen nondeterministically.            *)
(***************************************************************************)
EXTENDS Integers, Sequences, FiniteSets, TLC

VARIABLES
    role_permissions,   \* RBACSystem.role_permissions: role name -> set of permissions
    userRole,           \* User.role of each user, by User.id
    last,               \* the last call: its arguments, its trace and its result
    fresh,              \* TRUE iff nothing was mutated since the call recorded in last
    nKept,              \* number of mutations so far that `last` was retained across
    stock,              \* Product.stock of each product, by Product.id
    pc,                 \* where the thread that runs a call step by step stands
    frame,              \* the arguments and locals of the call that thread runs
    frozen              \* what that call would return, run whole at an instant since it began

vars == <<role_permissions, userRole, last, fresh, nKept, stock, pc, frame, frozen>>

----------------------------------------------------------------------------
(* Bounds of the model *)

\* `last` is a history variable.  A mutation leaves it as it is; to keep the
\* state space finite the model retains it across the first MaxKept mutations
\* of a run only, and forgets it (NoCall) at every later mutation.
MaxKept == 1

----------------------------------------------------------------------------
(* Demo data, src lines 205-240 *)

UserIds == {1, 2, 3, 4}

alice == 1
bob == 2
carol == 3
david == 4

InitRole == (1 :> "customer") @@ (2 :> "sales_rep") @@ (3 :> "data_scientist") @@ (4 :> "admin")

ProductName == (1 :> "Gaming Laptop") @@ (2 :> "Smartphone Pro") @@ (3 :> "Wireless Headphones")

\* Order(id, user_id, products, total, status, created_at); totals in cents
orders ==
    (1 :> [id |-> 1, user_id |-> 1, products |-> <<1, 3>>, total |-> 109998, status |-> "pending"]) @@
    (2 :> [id |-> 2, user_id |-> 1, products |-> <<2>>, total |-> 59999, status |-> "completed"])

----------------------------------------------------------------------------
(* The registry built by RBACSystem.__init__ *)

CustomerPerms == {"view_products", "view_own_orders", "place_order", "vector_search_basic"}

SalesRepPerms ==
    {"view_products", "view_all_orders", "update_order_status", "view_customer_info",
     "vector_search_basic", "vector_search_advanced"}

DataScientistPerms ==
    {"view_products", "vector_search_basic", "vector_search_advanced",
     "vector_create", "vector_delete", "vector_update"}

AdminPerms ==
    {"view_products", "update_product_stock", "view_all_orders", "update_order_status",
     "view_customer_info", "manage_users", "place_order", "vector_search_basic",
     "vector_search_advanced", "vector_create", "vector_delete", "vector_update",
     "vector_manage_index"}

InitRolePermissions ==
    ("customer" :> CustomerPerms) @@ ("sales_rep" :> SalesRepPerms) @@
    ("data_scientist" :> DataScientistPerms) @@ ("admin" :> AdminPerms)

\* Every permission token that occurs in the program
Permissions == CustomerPerms \cup SalesRepPerms \cup DataScientistPerms \cup AdminPerms

(* The role added at run time, src lines 573-579 *)

SeniorSalesRepPerms ==
    {"view_products", "view_all_orders", "update_order_status", "view_customer_info",
     "update_product_stock"}

\* Role names a user's role field is set to.  "senior_data_scientist" is never
\* defined in this model: it is a role name that is no key of the registry.
RoleNames ==
    {"customer", "sales_rep", "data_scientist", "admin",
     "senior_sales_rep", "senior_data_scientist"}

\* The users whose role field is reassigned
ReassignedUsers == {alice, bob}

\* Role names that rbac.role_permissions[...] = {...} is executed for: a new
\* role and an existing one
DefRoles == {"senior_sales_rep", "data_scientist"}

\* Permission sets that rbac.role_permissions[...] = {...} assigns
DefSets ==
    {SeniorSalesRepPerms,
     {"vector_create", "vector_search_basic"},
     {"vector_search_basic"},
     {"vector_create", "vector_manage_index", "manage_users"}}

----------------------------------------------------------------------------
(* Python values *)

\* A returned value or a raised exception of has_permission
Ret(b) == [exc |-> "", val |-> b]
Raise(e) == [exc |-> e, val |-> FALSE]

\* order_id = None
NoneArg == 0
OrderArgs == {NoneArg, 1, 2, 3}

\* A result of a call.  kind classifies it; msg is the string parts of a
\* message, flag a bool, perms a set of permissions, items a list of dicts.
Result(kind, msg, flag, perms, items) ==
    [kind |-> kind, msg |-> msg, flag |-> flag, perms |-> perms, items |-> items]

Denied(text) == Result("denied", <<text>>, FALSE, {}, <<>>)
NotFound(text) == Result("not_found", <<text>>, FALSE, {}, <<>>)
Data(items) == Result("data", <<>>, FALSE, {}, items)
Error(prefix, diag) == Result("error", <<prefix, diag>>, FALSE, {}, <<>>)
Success(prefix, id) == Result("ok", <<prefix, id>>, FALSE, {}, <<>>)
Raised(e) == Result("raise", <<e>>, FALSE, {}, <<>>)

\* One entry of a call's trace: a has_permission check or a collaborator call
Ev(ev, arg, ok) == [ev |-> ev, arg |-> arg, ok |-> ok]

NoCall ==
    [op |-> "none", user |-> 0, role |-> "", perm |-> "", order |-> NoneArg,
     trace |-> <<>>, res |-> Result("none", <<>>, FALSE, {}, <<>>)]

\* Product(id, name, price, stock, description), src lines 213-235
InitStock == (1 :> 50) @@ (2 :> 100) @@ (3 :> 200)

\* No call is run step by step
NoFrame ==
    [op |-> "none", user |-> 0, perm |-> "", order |-> NoneArg, k |-> 0, trace |-> <<>>]

----------------------------------------------------------------------------
(* RBACSystem *)

\* self.role_permissions[role], then `permission in` it: KeyError on a missing key
Subscript(rp, role, permission) ==
    IF role \in DOMAIN rp THEN Ret(permission \in rp[role]) ELSE Raise("KeyError")

\* has_permission as it would be without the `not in` guard
has_permission_unguarded(rp, role, permission) ==
    Subscript(rp, role, permission)

has_permission(rp, role, permission) ==
    IF role \notin DOMAIN rp
    THEN Ret(FALSE)
    ELSE Subscript(rp, role, permission)

\* self.role_permissions.get(user.role, set())
get_user_permissions(rp, role) ==
    IF role \in DOMAIN rp THEN rp[role] ELSE {}

\* The assignment as it would be if it added to the set the role already has
define_role_merging(rp, role, permissions) ==
    [r \in (DOMAIN rp) \cup {role} |->
        IF r = role
        THEN (IF role \in DOMAIN rp THEN rp[role] ELSE {}) \cup permissions
        ELSE rp[r]]

\* rbac.role_permissions[role] = permissions
define_role(rp, role, permissions) ==
    [r \in (DOMAIN rp) \cup {role} |-> IF r = role THEN permissions ELSE rp[r]]

\* The assignment as it would be if it were lost
set_role_lost(ur, user, role) ==
    ur

\* user.role = role
set_role(ur, user, role) ==
    [ur EXCEPT ![user] = role]

----------------------------------------------------------------------------
(* The facades *)

Called(trace, res) == [trace |-> trace, res |-> res]

\* The gate as it would be with `and` in place of `or`
or_has_permission_both(rp, role, p1, p2) ==
    LET c1 == has_permission(rp, role, p1)
        c2 == has_permission(rp, role, p2)
        e1 == Ev("has_permission", p1, c1.val)
        e2 == Ev("has_permission", p2, c2.val)
    IN  IF c1.exc # "" \/ ~c1.val
        THEN [trace |-> <<e1>>, exc |-> c1.exc, val |-> c1.val]
        ELSE [trace |-> <<e1, e2>>, exc |-> c2.exc, val |-> c2.val]

\* has_permission(user, p1) or has_permission(user, p2): the second check runs
\* only when the first returned False
or_has_permission(rp, role, p1, p2) ==
    LET c1 == has_permission(rp, role, p1)
        c2 == has_permission(rp, role, p2)
        e1 == Ev("has_permission", p1, c1.val)
        e2 == Ev("has_permission", p2, c2.val)
    IN  IF c1.exc # "" \/ c1.val
        THEN [trace |-> <<e1>>, exc |-> c1.exc, val |-> c1.val]
        ELSE [trace |-> <<e1, e2>>, exc |-> c2.exc, val |-> c2.val]

\* self.orders.values(), in insertion order
OrderList == <<orders[1], orders[2]>>

\* The dict view_orders builds for one order
OrderDict(order) ==
    [id |-> order.id, total |-> order.total, status |-> order.status,
     products |-> [i \in 1..Len(order.products) |-> ProductName[order.products[i]]]]

OrderDicts(s) == [i \in 1..Len(s) |-> OrderDict(s[i])]

\* The listing as it would be without the filter on order.user_id
OwnedBy_unfiltered(user) == OrderList

\* [order for order in self.orders.values() if order.user_id == user.id]
OwnedBy(user) == LET own(o) == o.user_id = user IN SelectSeq(OrderList, own)

\* view_orders as it would be without the comparison of order.user_id with user.id
view_orders_no_owner_check(rp, user, role, order_id) ==
    LET g == or_has_permission(rp, role, "view_all_orders", "view_own_orders")
        c == has_permission(rp, role, "view_all_orders")
        tr == Append(g.trace, Ev("has_permission", "view_all_orders", c.val))
    IN  IF g.exc # "" THEN Called(g.trace, Raised(g.exc))
        ELSE IF ~g.val
        THEN Called(g.trace, Denied("Access Denied: No permission to view orders"))
        ELSE IF order_id # NoneArg
        THEN IF order_id \notin DOMAIN orders
             THEN Called(g.trace, NotFound("Order not found"))
             ELSE IF c.exc # "" THEN Called(tr, Raised(c.exc))
             ELSE Called(tr, Data(<<OrderDict(orders[order_id])>>))
        ELSE IF c.exc # "" THEN Called(tr, Raised(c.exc))
        ELSE IF c.val
        THEN Called(tr, Data(OrderDicts(OrderList)))
        ELSE Called(tr, Data(OrderDicts(OwnedBy(user))))

\* view_orders as it would be with another user's order reported as missing
view_orders_hides_existence(rp, user, role, order_id) ==
    LET g == or_has_permission(rp, role, "view_all_orders", "view_own_orders")
        c == has_permission(rp, role, "view_all_orders")
        tr == Append(g.trace, Ev("has_permission", "view_all_orders", c.val))
    IN  IF g.exc # "" THEN Called(g.trace, Raised(g.exc))
        ELSE IF ~g.val
        THEN Called(g.trace, Denied("Access Denied: No permission to view orders"))
        ELSE IF order_id # NoneArg
        THEN IF order_id \notin DOMAIN orders
             THEN Called(g.trace, NotFound("Order not found"))
             ELSE IF c.exc # "" THEN Called(tr, Raised(c.exc))
             ELSE IF ~c.val /\ orders[order_id].user_id # user
             THEN Called(tr, NotFound("Order not found"))
             ELSE Called(tr, Data(<<OrderDict(orders[order_id])>>))
        ELSE IF c.exc # "" THEN Called(tr, Raised(c.exc))
        ELSE IF c.val
        THEN Called(tr, Data(OrderDicts(OrderList)))
        ELSE Called(tr, Data(OrderDicts(OwnedBy(user))))

view_orders(rp, user, role, order_id) ==
    LET g == or_has_permission(rp, role, "view_all_orders", "view_own_orders")
        c == has_permission(rp, role, "view_all_orders")
        tr == Append(g.trace, Ev("has_permission", "view_all_orders", c.val))
    IN  IF g.exc # "" THEN Called(g.trace, Raised(g.exc))
        ELSE IF ~g.val
        THEN Called(g.trace, Denied("Access Denied: No permission to view orders"))
        ELSE IF order_id # NoneArg
        THEN IF order_id \notin DOMAIN orders
             THEN Called(g.trace, NotFound("Order not found"))
             ELSE IF c.exc # "" THEN Called(tr, Raised(c.exc))
             ELSE IF ~c.val /\ orders[order_id].user_id # user
             THEN Called(tr, Denied("Access Denied: Can only view your own orders"))
             ELSE Called(tr, Data(<<OrderDict(orders[order_id])>>))
        ELSE IF c.exc # "" THEN Called(tr, Raised(c.exc))
        ELSE IF c.val
        THEN Called(tr, Data(OrderDicts(OrderList)))
        ELSE Called(tr, Data(OrderDicts(OwnedBy(user))))

\* Outcomes of the collaborators' calls
EncodeOutcomes == {"ok", "fail"}
QueryOutcomes == {"matches", "empty", "badmeta", "fail"}
UpsertOutcomes == {"ok", "fail"}

\* str(e) of the exception a collaborator raised
EncoderDiag == "encoder failure"
StoreDiag == "vector store failure"
\* str(KeyError) of a match whose metadata lacks a key the formatting reads
MetadataDiag == "'description'"

\* One formatted match of results.matches
Match == [product_name |-> "Gaming Laptop", vector_id |-> "uuid"]

\* vector_search as it would be with the query embedded before the permission
\* gate is consulted
vector_search_encode_first(rp, role, enc, qry) ==
    LET g == or_has_permission(rp, role, "vector_search_basic", "vector_search_advanced")
        prefix == "Error performing vector search: "
        t1 == <<Ev("encode", "", enc = "ok")>> \o g.trace
        t2 == Append(t1, Ev("query", "", qry # "fail"))
    IN  IF g.exc # "" THEN Called(t1, Raised(g.exc))
        ELSE IF ~g.val
        THEN Called(t1, Denied("Access Denied: No permission to perform vector search"))
        ELSE IF enc = "fail" THEN Called(t1, Error(prefix, EncoderDiag))
        ELSE IF qry = "fail" THEN Called(t2, Error(prefix, StoreDiag))
        ELSE IF qry = "empty" THEN Called(t2, Data(<<>>))
        ELSE IF qry = "badmeta" THEN Called(t2, Error(prefix, MetadataDiag))
        ELSE Called(t2, Data(<<Match>>))

vector_search(rp, role, enc, qry) ==
    LET g == or_has_permission(rp, role, "vector_search_basic", "vector_search_advanced")
        prefix == "Error performing vector search: "
        t1 == Append(g.trace, Ev("encode", "", enc = "ok"))
        t2 == Append(t1, Ev("query", "", qry # "fail"))
    IN  IF g.exc # "" THEN Called(g.trace, Raised(g.exc))
        ELSE IF ~g.val
        THEN Called(g.trace, Denied("Access Denied: No permission to perform vector search"))
        ELSE IF enc = "fail" THEN Called(t1, Error(prefix, EncoderDiag))
        ELSE IF qry = "fail" THEN Called(t2, Error(prefix, StoreDiag))
        ELSE IF qry = "empty" THEN Called(t2, Data(<<>>))
        ELSE IF qry = "badmeta" THEN Called(t2, Error(prefix, MetadataDiag))
        ELSE Called(t2, Data(<<Match>>))

\* create_vector as it would be with a failed upsert reported as a denial
create_vector_masks_failure(rp, role, enc, ups) ==
    LET c == has_permission(rp, role, "vector_create")
        t0 == <<Ev("has_permission", "vector_create", c.val)>>
        prefix == "Error creating vector: "
        t1 == Append(t0, Ev("encode", "", enc = "ok"))
        t2 == Append(t1, Ev("upsert", "", ups = "ok"))
    IN  IF c.exc # "" THEN Called(t0, Raised(c.exc))
        ELSE IF ~c.val
        THEN Called(t0, Denied("Access Denied: No permission to create vectors"))
        ELSE IF enc = "fail" THEN Called(t1, Error(prefix, EncoderDiag))
        ELSE IF ups = "fail"
        THEN Called(t2, Denied("Access Denied: No permission to create vectors"))
        ELSE Called(t2, Success("Vector created successfully with ID: ", "uuid"))

create_vector(rp, role, enc, ups) ==
    LET c == has_permission(rp, role, "vector_create")
        t0 == <<Ev("has_permission", "vector_create", c.val)>>
        prefix == "Error creating vector: "
        t1 == Append(t0, Ev("encode", "", enc = "ok"))
        t2 == Append(t1, Ev("upsert", "", ups = "ok"))
    IN  IF c.exc # "" THEN Called(t0, Raised(c.exc))
        ELSE IF ~c.val
        THEN Called(t0, Denied("Access Denied: No permission to create vectors"))
        ELSE IF enc = "fail" THEN Called(t1, Error(prefix, EncoderDiag))
        ELSE IF ups = "fail" THEN Called(t2, Error(prefix, StoreDiag))
        ELSE Called(t2, Success("Vector created successfully with ID: ", "uuid"))

----------------------------------------------------------------------------
(* The inventory.  InventoryManagement.products and ECommerceSystem.products *)
(* are two dicts over the same Product objects (lines 439, 617, 630), so the  *)
(* stock update_stock sets is the stock view_products reads.                  *)

\* Prices in cents
ProductPrice == (1 :> 99999) @@ (2 :> 59999) @@ (3 :> 9999)

\* The product ids and stock levels update_stock is called with (4 is no product)
ProductArgs == {1, 2, 4}
StockArgs == {45}

UpdateCall(trace, res, st) == [trace |-> trace, res |-> res, stock |-> st]

\* update_stock as it would be with the assignment ahead of the permission check
update_stock_before_check(rp, role, st, product_id, new_stock) ==
    LET c == has_permission(rp, role, "update_product_stock")
        t0 == <<Ev("has_permission", "update_product_stock", c.val)>>
        set == IF product_id \in DOMAIN st THEN [st EXCEPT ![product_id] = new_stock] ELSE st
    IN  IF c.exc # "" THEN UpdateCall(t0, Raised(c.exc), set)
        ELSE IF ~c.val
        THEN UpdateCall(t0, Denied("Access Denied: No permission to update stock"), set)
        ELSE IF product_id \notin DOMAIN st
        THEN UpdateCall(t0, NotFound("Product not found"), set)
        ELSE UpdateCall(t0, Success("Stock updated successfully for ", ProductName[product_id]),
                        set)

\* InventoryManagement.update_stock (lines 619-627) on the stock levels st:
\* the value returned and the stock levels it leaves
update_stock(rp, role, st, product_id, new_stock) ==
    LET c == has_permission(rp, role, "update_product_stock")
        t0 == <<Ev("has_permission", "update_product_stock", c.val)>>
    IN  IF c.exc # "" THEN UpdateCall(t0, Raised(c.exc), st)
        ELSE IF ~c.val
        THEN UpdateCall(t0, Denied("Access Denied: No permission to update stock"), st)
        ELSE IF product_id \notin DOMAIN st
        THEN UpdateCall(t0, NotFound("Product not found"), st)
        ELSE UpdateCall(t0, Success("Stock updated successfully for ", ProductName[product_id]),
                        [st EXCEPT ![product_id] = new_stock])

\* The dict view_products builds for one product
ProductDict(st, id) ==
    [id |-> id, name |-> ProductName[id], price |-> ProductPrice[id], stock |-> st[id]]

\* ECommerceSystem.view_products (lines 444-451)
view_products(rp, role, st) ==
    LET c == has_permission(rp, role, "view_products")
        t0 == <<Ev("has_permission", "view_products", c.val)>>
    IN  IF c.exc # "" THEN Called(t0, Raised(c.exc))
        ELSE IF ~c.val
        THEN Called(t0, Denied("Access Denied: No permission to view products"))
        ELSE Called(t0, Data([id \in 1..3 |-> ProductDict(st, id)]))

----------------------------------------------------------------------------
(* The state machine *)

Init ==
    /\ role_permissions = InitRolePermissions
    /\ userRole = InitRole
    /\ last = NoCall
    /\ fresh = FALSE
    /\ nKept = 0
    /\ stock = InitStock
    /\ pc = "idle"
    /\ frame = NoFrame
    /\ frozen = {}

\* What a mutation leaves of the history: the program does not touch a value
\* it returned earlier
Mutated ==
    /\ fresh' = FALSE
    /\ IF nKept < MaxKept
       THEN last' = last /\ nKept' = nKept + 1
       ELSE last' = NoCall /\ nKept' = nKept
    /\ UNCHANGED <<stock, pc, frame, frozen>>

\* rbac.role_permissions[role] = permissions (src lines 573, 581)
DefineRole(role, permissions) ==
    /\ role_permissions' = define_role(role_permissions, role, permissions)
    /\ Mutated
    /\ UNCHANGED userRole

\* A promotion as it would be if it granted the new role the permissions of
\* the role the user leaves
SetRole_merging(user, role) ==
    /\ userRole' = set_role(userRole, user, role)
    /\ role_permissions' =
          [r \in DOMAIN role_permissions |->
              IF r = role /\ userRole[user] \in DOMAIN role_permissions
              THEN role_permissions[r] \cup role_permissions[userRole[user]]
              ELSE role_permissions[r]]
    /\ Mutated

\* user.role = role (src lines 598, 601)
SetRole(user, role) ==
    /\ userRole' = set_role(userRole, user, role)
    /\ Mutated
    /\ UNCHANGED role_permissions

Record(op, user, perm, order, trace, res) ==
    /\ last' = [op |-> op, user |-> user, role |-> userRole[user], perm |-> perm,
                order |-> order, trace |-> trace, res |-> res]
    /\ fresh' = TRUE
    /\ UNCHANGED <<role_permissions, userRole, nKept, stock, pc, frame, frozen>>

CallHasPermission(user, permission) ==
    LET c == has_permission(role_permissions, userRole[user], permission)
    IN  Record("has_permission", user, permission, NoneArg, <<>>,
               IF c.exc # "" THEN Raised(c.exc)
               ELSE Result("bool", <<>>, c.val, {}, <<>>))

CallGetUserPermissions(user) ==
    Record("get_user_permissions", user, "", NoneArg, <<>>,
           Result("perms", <<>>, FALSE,
                  get_user_permissions(role_permissions, userRole[user]), <<>>))

CallViewOrders(user, order_id) ==
    LET r == view_orders(role_permissions, user, userRole[user], order_id)
    IN  Record("view_orders", user, "", order_id, r.trace, r.res)

CallVectorSearch(user, enc, qry) ==
    LET r == vector_search(role_permissions, userRole[user], enc, qry)
    IN  Record("vector_search", user, "", NoneArg, r.trace, r.res)

CallCreateVector(user, enc, ups) ==
    LET r == create_vector(role_permissions, userRole[user], enc, ups)
    IN  Record("create_vector", user, "", NoneArg, r.trace, r.res)

CallUpdateStock(user, product_id, new_stock) ==
    LET r == update_stock(role_permissions, userRole[user], stock, product_id, new_stock)
    IN  /\ stock' = r.stock
        /\ last' = [op |-> "update_stock", user |-> user, role |-> userRole[user],
                    perm |-> "", order |-> NoneArg, trace |-> r.trace, res |-> r.res]
        /\ fresh' = TRUE
        /\ UNCHANGED <<role_permissions, userRole, nKept, pc, frame, frozen>>

CallViewProducts(user) ==
    LET r == view_products(role_permissions, userRole[user], stock)
    IN  Record("view_products", user, "", NoneArg, r.trace, r.res)

Define == \E role \in DefRoles, permissions \in DefSets : DefineRole(role, permissions)

Reassign == \E user \in ReassignedUsers, role \in RoleNames : SetRole(user, role)

\* The registry and its two readers
NextRBAC ==
    \/ Define
    \/ Reassign
    \/ \E user \in UserIds, permission \in Permissions : CallHasPermission(user, permission)
    \/ \E user \in UserIds : CallGetUserPermissions(user)

\* The order facade
NextOrders ==
    \/ Define
    \/ Reassign
    \/ \E user \in UserIds, order_id \in OrderArgs : CallViewOrders(user, order_id)

\* The facades that call the encoder and the vector store
NextVector ==
    \/ Define
    \/ Reassign
    \/ \E user \in UserIds, enc \in EncodeOutcomes, qry \in QueryOutcomes :
          CallVectorSearch(user, enc, qry)
    \/ \E user \in UserIds, enc \in EncodeOutcomes, ups \in UpsertOutcomes :
          CallCreateVector(user, enc, ups)

\* The inventory and the product listing
NextInventory ==
    \/ Define
    \/ Reassign
    \/ \E user \in UserIds, product_id \in ProductArgs, new_stock \in StockArgs :
          CallUpdateStock(user, product_id, new_stock)
    \/ \E user \in UserIds : CallViewProducts(user)

Next == NextRBAC \/ NextOrders \/ NextVector \/ NextInventory

Spec == Init /\ [][Next]_vars
SpecRBAC == Init /\ [][NextRBAC]_vars
SpecOrders == Init /\ [][NextOrders]_vars
SpecVector == Init /\ [][NextVector]_vars
SpecInventory == Init /\ [][NextInventory]_vars

----------------------------------------------------------------------------
(* A call run by one thread, a statement at a time, while another thread     *)
(* defines roles and reassigns users.  The code takes no lock: has_permission *)
(* reads user.role once for the `not in` test (line 390) and once more for   *)
(* the subscript (line 392), and view_orders calls has_permission up to      *)
(* three times (lines 454, 455 and 462 or 473).                              *)

\* Number of mutations the other thread executes in a run
MaxInterleaved == 2

\* The users that call, and the permissions has_permission is called with
ConcUsers == {alice, bob}
ConcPerms == {"view_all_orders", "vector_create"}

\* What has_permission hands to its caller
CheckResult(c) ==
    IF c.exc # "" THEN Raised(c.exc) ELSE Result("bool", <<>>, c.val, {}, <<>>)

\* The value the call of frame fr returns when it runs whole with the
\* registry rp and the roles ur
Outcome(rp, ur, fr) ==
    IF fr.op = "view_orders"
    THEN view_orders(rp, fr.user, ur[fr.user], fr.order).res
    ELSE CheckResult(has_permission(rp, ur[fr.user], fr.perm))

\* The call returns res (or raises)
Finish(trace, res) ==
    /\ pc' = "idle"
    /\ frame' = NoFrame
    /\ last' = [op |-> frame.op, user |-> frame.user, role |-> userRole[frame.user],
                perm |-> IF frame.op = "has_permission" THEN frame.perm ELSE "",
                order |-> frame.order, trace |-> trace, res |-> res]
    /\ fresh' = TRUE
    /\ UNCHANGED frozen

\* view_orders goes on to its k-th call of has_permission
NextCheck(k, permission, trace) ==
    /\ pc' = "test"
    /\ frame' = [frame EXCEPT !.k = k, !.perm = permission, !.trace = trace]
    /\ UNCHANGED <<last, fresh, frozen>>

\* view_orders after its gate (lines 458-461)
AfterGate(trace) ==
    IF frame.order # NoneArg /\ frame.order \notin DOMAIN orders
    THEN Finish(trace, NotFound("Order not found"))
    ELSE NextCheck(3, "view_all_orders", trace)

\* has_permission returns c (or raises) to the call of frame
Deliver(c) ==
    LET tr == Append(frame.trace, Ev("has_permission", frame.perm, c.val))
    IN  IF frame.op = "has_permission" THEN Finish(<<>>, CheckResult(c))
        ELSE IF c.exc # "" THEN Finish(tr, Raised(c.exc))
        ELSE IF frame.k = 1
        THEN (IF c.val THEN AfterGate(tr) ELSE NextCheck(2, "view_own_orders", tr))
        ELSE IF frame.k = 2
        THEN (IF c.val THEN AfterGate(tr)
              ELSE Finish(tr, Denied("Access Denied: No permission to view orders")))
        ELSE IF frame.order # NoneArg
        THEN (IF ~c.val /\ orders[frame.order].user_id # frame.user
              THEN Finish(tr, Denied("Access Denied: Can only view your own orders"))
              ELSE Finish(tr, Data(<<OrderDict(orders[frame.order])>>)))
        ELSE IF c.val THEN Finish(tr, Data(OrderDicts(OrderList)))
        ELSE Finish(tr, Data(OrderDicts(OwnedBy(frame.user))))

\* The call's first statement is next
Begin(fr) ==
    /\ pc' = "test"
    /\ frame' = fr
    /\ frozen' = {Outcome(role_permissions, userRole, fr)}
    /\ UNCHANGED <<role_permissions, userRole, last, fresh, nKept, stock>>

BeginHasPermission(user, permission) ==
    /\ pc = "idle"
    /\ Begin([op |-> "has_permission", user |-> user, perm |-> permission,
              order |-> NoneArg, k |-> 0, trace |-> <<>>])

BeginViewOrders(user, order_id) ==
    /\ pc = "idle"
    /\ Begin([op |-> "view_orders", user |-> user, perm |-> "view_all_orders",
              order |-> order_id, k |-> 1, trace |-> <<>>])

\* if user.role not in self.role_permissions: return False (lines 390-391)
TestRole ==
    /\ pc = "test"
    /\ IF userRole[frame.user] \notin DOMAIN role_permissions
       THEN Deliver(Ret(FALSE))
       ELSE pc' = "lookup" /\ UNCHANGED <<frame, last, fresh, frozen>>
    /\ UNCHANGED <<role_permissions, userRole, nKept, stock>>

\* return permission in self.role_permissions[user.role] (line 392)
LookupRole ==
    /\ pc = "lookup"
    /\ Deliver(Subscript(role_permissions, userRole[frame.user], frame.perm))
    /\ UNCHANGED <<role_permissions, userRole, nKept, stock>>

\* A mutation of the other thread: it leaves what calls returned as it is
Interleaved ==
    /\ nKept < MaxInterleaved
    /\ nKept' = nKept + 1
    /\ fresh' = FALSE
    /\ frozen' = IF pc = "idle" THEN frozen
                 ELSE frozen \cup {Outcome(role_permissions', userRole', frame)}
    /\ UNCHANGED <<last, stock, pc, frame>>

ConcDefineRole(role, permissions) ==
    /\ role_permissions' = define_role(role_permissions, role, permissions)
    /\ UNCHANGED userRole
    /\ Interleaved

ConcSetRole(user, role) ==
    /\ userRole' = set_role(userRole, user, role)
    /\ UNCHANGED role_permissions
    /\ Interleaved

NextConc ==
    \/ \E user \in ConcUsers, permission \in ConcPerms : BeginHasPermission(user, permission)
    \/ \E user \in ConcUsers, order_id \in OrderArgs : BeginViewOrders(user, order_id)
    \/ TestRole
    \/ LookupRole
    \/ \E role \in DefRoles, permissions \in DefSets : ConcDefineRole(role, permissions)
    \/ \E user \in ReassignedUsers, role \in RoleNames : ConcSetRole(user, role)

SpecConc == Init /\ [][NextConc]_vars

----------------------------------------------------------------------------
(* The claims *)

\* Role `role` holds permission p in the registry as it is now
Holds(role, p) == role \in DOMAIN role_permissions /\ p \in role_permissions[role]

CollaboratorCalls == {"encode", "query", "upsert"}

\* The permissions either of which admits the facade operation op
RequiredAny(op) ==
    IF op = "vector_search" THEN {"vector_search_basic", "vector_search_advanced"}
    ELSE IF op = "create_vector" THEN {"vector_create"}
    ELSE IF op = "view_orders" THEN {"view_all_orders", "view_own_orders"}
    ELSE {}

Authorized(op, role) == \E p \in RequiredAny(op) : Holds(role, p)

\* C1: a vector_search or create_vector whose caller's role holds none of the
\* required permissions returns its denial and its trace has no call of the
\* encoder or the vector store; in every trace a collaborator call comes after
\* a has_permission check of a required permission that returned True.
C1_NoCollaboratorCallForDenied ==
    last.op \in {"vector_search", "create_vector"} =>
        /\ (fresh /\ ~Authorized(last.op, last.role)) =>
              /\ last.res.kind = "denied"
              /\ \A i \in 1..Len(last.trace) : last.trace[i].ev \notin CollaboratorCalls
        /\ last.res.kind = "denied" =>
              \A i \in 1..Len(last.trace) : last.trace[i].ev \notin CollaboratorCalls
        /\ \A i \in 1..Len(last.trace) :
              last.trace[i].ev \in CollaboratorCalls =>
                 \E j \in 1..(i - 1) :
                    /\ last.trace[j].ev = "has_permission"
                    /\ last.trace[j].arg \in RequiredAny(last.op)
                    /\ last.trace[j].ok

\* A denied create_vector: the caller's role lacks vector_create
C1_Witness ==
    /\ last.op = "create_vector"
    /\ fresh
    /\ ~Holds(last.role, "vector_create")
    /\ last.res.kind = "denied"

\* C7: vector_search is authorized iff the caller's current role holds
\* vector_search_basic or vector_search_advanced: holding only
\* vector_search_basic suffices, and a role holding neither is denied whatever
\* else it holds.
C7_EitherOfSearchPermission ==
    (fresh /\ last.op = "vector_search") =>
        /\ last.res.kind \in {"denied", "data", "error"}
        /\ (last.res.kind # "denied") <=>
              (Holds(last.role, "vector_search_basic") \/
               Holds(last.role, "vector_search_advanced"))
        /\ (last.role \in DOMAIN role_permissions /\
            role_permissions[last.role] = {"vector_search_basic"}) =>
              last.res.kind # "denied"
        /\ (~Holds(last.role, "vector_search_basic") /\
            ~Holds(last.role, "vector_search_advanced")) =>
              last.res = Denied("Access Denied: No permission to perform vector search")

\* A caller holding vector_create, vector_manage_index and manage_users but
\* neither search permission is denied
C7_Witness ==
    /\ fresh
    /\ last.op = "vector_search"
    /\ Holds(last.role, "vector_create")
    /\ Holds(last.role, "vector_manage_index")
    /\ Holds(last.role, "manage_users")
    /\ last.res.kind = "denied"

\* C9: when a call of the encoder or of the vector store fails during an
\* authorized vector_search or create_vector, the result is the operation's
\* error message carrying the collaborator's diagnostic, never a denial; a
\* denial is returned only when no permission check of the call succeeded.
C9_CollaboratorFailureIsError ==
    last.op \in {"vector_search", "create_vector"} =>
        /\ \A i \in 1..Len(last.trace) :
              (last.trace[i].ev \in CollaboratorCalls /\ ~last.trace[i].ok) =>
                 /\ last.res.kind = "error"
                 /\ last.res.msg[1] =
                       (IF last.op = "vector_search"
                        THEN "Error performing vector search: "
                        ELSE "Error creating vector: ")
                 /\ last.res.msg[2] =
                       (IF last.trace[i].ev = "encode" THEN EncoderDiag ELSE StoreDiag)
        /\ last.res.kind = "denied" =>
              /\ \A i \in 1..Len(last.trace) :
                    last.trace[i].ev = "has_permission" /\ ~last.trace[i].ok
              /\ fresh => ~Authorized(last.op, last.role)

\* An authorized create_vector whose upsert failed
C9_Witness ==
    /\ last.op = "create_vector"
    /\ last.res.kind = "error"
    /\ \E i \in 1..Len(last.trace) : last.trace[i].ev = "upsert" /\ ~last.trace[i].ok

\* The result of view_orders(user, order_id) is the data of order order_id
ReturnsOrder(res, order_id) ==
    /\ res.kind = "data"
    /\ Len(res.items) = 1
    /\ res.items[1].id = order_id
    /\ res.items[1].total = orders[order_id].total
    /\ res.items[1].status = orders[order_id].status

\* The permissions role holds now, none for a role that is no key of the registry
PermissionsOf(role) ==
    IF role \in DOMAIN role_permissions THEN role_permissions[role] ELSE {}

\* C4: for an existing order O, view_orders(U, O.id) returns O's data iff U's
\* current role holds view_all_orders, or holds view_own_orders and O.user_id
\* is U.id; every other caller gets a denial.
C4_OwnershipRule ==
    (fresh /\ last.op = "view_orders" /\ last.order \in DOMAIN orders) =>
        /\ ReturnsOrder(last.res, last.order) <=>
              \/ Holds(last.role, "view_all_orders")
              \/ /\ Holds(last.role, "view_own_orders")
                 /\ orders[last.order].user_id = last.user
        /\ ReturnsOrder(last.res, last.order) \/ last.res.kind = "denied"

\* Two principals whose roles hold the same permissions, without
\* view_all_orders: the one that is not the owner has just been denied the
\* order that the owner is entitled to
C4_Witness ==
    /\ fresh
    /\ last.op = "view_orders"
    /\ last.order \in DOMAIN orders
    /\ last.res.kind = "denied"
    /\ Holds(last.role, "view_own_orders")
    /\ ~Holds(last.role, "view_all_orders")
    /\ \E owner \in UserIds :
          /\ owner # last.user
          /\ orders[last.order].user_id = owner
          /\ PermissionsOf(userRole[owner]) = PermissionsOf(last.role)

\* The two messages view_orders denies with, and the one it reports a missing
\* order with
OrderDenials ==
    {<<"Access Denied: No permission to view orders">>,
     <<"Access Denied: Can only view your own orders">>}

OrderNotFound == <<"Order not found">>

\* C5: view_orders with an order id answers an existing order of another
\* user, for a caller without view_all_orders, with one of its denials and
\* never with "Order not found"; "Order not found" is returned only for an id
\* that is not in the order store; the denials and "Order not found" are
\* different values.
C5_NotFoundDistinctFromForbidden ==
    (last.op = "view_orders" /\ last.order # NoneArg) =>
        /\ (/\ fresh
            /\ last.order \in DOMAIN orders
            /\ orders[last.order].user_id # last.user
            /\ ~Holds(last.role, "view_all_orders")) =>
              /\ last.res.kind = "denied"
              /\ last.res.msg \in OrderDenials
              /\ last.res.msg # OrderNotFound
        /\ (last.res.kind = "not_found" \/ last.res.msg = OrderNotFound) =>
              /\ last.order \notin DOMAIN orders
              /\ last.res.kind = "not_found"
              /\ last.res.msg = OrderNotFound
        /\ last.res.kind = "denied" => last.res.msg \in OrderDenials
        /\ OrderNotFound \notin OrderDenials

\* A caller holding view_own_orders asks for an order of another user
C5_Witness ==
    /\ last.op = "view_orders"
    /\ last.order \in DOMAIN orders
    /\ orders[last.order].user_id # last.user
    /\ last.res.msg = <<"Access Denied: Can only view your own orders">>

\* C2: for a principal whose role is no key of the registry,
\* get_user_permissions returns the empty set and has_permission returns
\* False for every permission; neither raises.
C2_UnknownRoleHoldsNothing ==
    /\ last.op \in {"has_permission", "get_user_permissions"} => last.res.kind # "raise"
    /\ (fresh /\ last.role \notin DOMAIN role_permissions) =>
          /\ last.op = "has_permission" =>
                (last.res.kind = "bool" /\ last.res.flag = FALSE)
          /\ last.op = "get_user_permissions" =>
                (last.res.kind = "perms" /\ last.res.perms = {})
    /\ \A role \in RoleNames \ DOMAIN role_permissions :
          /\ get_user_permissions(role_permissions, role) = {}
          /\ \A p \in Permissions : has_permission(role_permissions, role, p) = Ret(FALSE)

\* has_permission was called for a user whose role is no key of the registry
C2_Witness ==
    /\ fresh
    /\ last.op = "has_permission"
    /\ last.role \notin DOMAIN role_permissions
    /\ last.res.kind = "bool"

\* A step of a mutation, not of a call: only calls leave fresh TRUE
MutationStep == ~fresh'

\* C3: the has_permission call that follows the reassignment of a principal
\* to role R' returns exactly whether R' holds the permission, and so do the
\* gates of the facades and every recorded call made since; the reassignment
\* leaves the result of the call made before it as it was.
C3_PromotionEffectiveAtOnce ==
    /\ [](fresh /\ last.op = "has_permission" =>
            /\ last.role = userRole[last.user]
            /\ last.res.kind = "bool"
            /\ last.res.flag = Holds(userRole[last.user], last.perm))
    /\ [][MutationStep => \A user \in ReassignedUsers, role \in RoleNames :
             SetRole(user, role) =>
                /\ userRole'[user] = role
                /\ \A p \in Permissions :
                      has_permission(role_permissions', userRole'[user], p) =
                         Ret(Holds(role, p))
                /\ or_has_permission(role_permissions', userRole'[user],
                                      "view_all_orders", "view_own_orders").val =
                      Authorized("view_orders", role)
                /\ or_has_permission(role_permissions', userRole'[user],
                                      "vector_search_basic", "vector_search_advanced").val =
                      Authorized("vector_search", role)
                /\ (last.op # "none" /\ nKept < MaxKept) => last' = last]_vars

\* A promoted user is granted, at a call after the promotion, a permission
\* that the role the user had at the start does not hold
C3_Witness ==
    /\ fresh
    /\ last.op = "has_permission"
    /\ last.role # InitRole[last.user]
    /\ last.perm \notin InitRolePermissions[InitRole[last.user]]
    /\ last.res.flag

\* C6: a reassignment replaces the principal's role: afterwards
\* has_permission is true for the permissions of the new role only, a
\* permission the old role held and the new one does not is denied, and the
\* registry is as it was before the reassignment.
C6_ReassignmentReplaces ==
    /\ [](fresh /\ last.op = "has_permission" /\ last.res.flag =>
            last.perm \in PermissionsOf(userRole[last.user]))
    /\ [][MutationStep => \A user \in ReassignedUsers, role \in RoleNames :
             SetRole(user, role) =>
                /\ role_permissions' = role_permissions
                /\ \A p \in Permissions :
                      has_permission(role_permissions', userRole'[user], p).val =>
                         p \in PermissionsOf(role)
                /\ \A p \in PermissionsOf(userRole[user]) \ PermissionsOf(role) :
                      has_permission(role_permissions', userRole'[user], p) = Ret(FALSE)]_vars

\* Alice, moved from customer to data_scientist, is denied view_own_orders
C6_Witness ==
    /\ fresh
    /\ last.op = "has_permission"
    /\ last.user = alice
    /\ last.role = "data_scientist"
    /\ last.perm = "view_own_orders"
    /\ last.perm \in InitRolePermissions[InitRole[alice]]
    /\ ~last.res.flag

\* C8: defining role R with set S leaves the registry mapping R to exactly S
\* whatever R held before, leaves every other role's set as it was, and
\* changes nothing when R already holds S.
C8_DefineReplacesWholesale ==
    [][MutationStep => \A role \in DefRoles, permissions \in DefSets :
          DefineRole(role, permissions) =>
             /\ DOMAIN role_permissions' = (DOMAIN role_permissions) \cup {role}
             /\ role_permissions'[role] = permissions
             /\ \A r \in (DOMAIN role_permissions) \ {role} :
                   role_permissions'[r] = role_permissions[r]
             /\ (role \in DOMAIN role_permissions /\
                 role_permissions[role] = permissions) =>
                   role_permissions' = role_permissions]_vars

\* data_scientist, which held six permissions, holds exactly the two it was
\* redefined with
C8_Witness ==
    /\ role_permissions["data_scientist"] = {"vector_create", "vector_search_basic"}
    /\ role_permissions["data_scientist"] # InitRolePermissions["data_scientist"]
    /\ role_permissions["data_scientist"] \subseteq InitRolePermissions["data_scientist"]

\* C10: in the registry built by RBACSystem.__init__, every permission that
\* occurs in the set of any role is held by admin, so has_permission of an
\* admin user is true for each of them.
C10_AdminHoldsAllPermissions ==
    (/\ fresh
     /\ last.op = "has_permission"
     /\ last.role = "admin"
     /\ role_permissions = InitRolePermissions
     /\ last.perm \in UNION {InitRolePermissions[r] : r \in DOMAIN InitRolePermissions}) =>
        (last.res.kind = "bool" /\ last.res.flag)

\* C11: a view_orders call that returns while roles are defined and users
\* reassigned returns what the call returns when run whole at one instant
\* between its first and its last statement: never a value made of a gate
\* passed under one role and a branch chosen under another.
C11_SingleDecisionPerCall ==
    (pc = "idle" /\ last.op = "view_orders" /\ last.res.kind # "raise") =>
        last.res \in frozen

\* C12: has_permission called while users are reassigned and roles defined
\* returns True or False and never raises.
C12_HasPermissionTotal ==
    (pc = "idle" /\ last.op = "has_permission") => last.res.kind = "bool"

\* The ids of the orders a listing holds
Listed(res) == {res.items[i].id : i \in 1..Len(res.items)}

OrdersOf(user) == {o \in DOMAIN orders : orders[o].user_id = user}

\* C13: view_orders(U) without an order id, for U whose current role lacks
\* view_all_orders, lists exactly the orders whose user_id is U.id when the
\* role holds view_own_orders and is a denial when it holds neither; with
\* view_all_orders it lists every order of the store; an order of another
\* principal is listed only to a role holding view_all_orders.
C13_ListingOwnershipScoped ==
    (fresh /\ last.op = "view_orders" /\ last.order = NoneArg) =>
        LET all == Holds(last.role, "view_all_orders")
            own == Holds(last.role, "view_own_orders")
        IN  /\ (~all /\ own) =>
                  /\ last.res.kind = "data"
                  /\ Listed(last.res) = OrdersOf(last.user)
                  /\ Len(last.res.items) = Cardinality(OrdersOf(last.user))
            /\ (~all /\ ~own) =>
                  /\ last.res.kind = "denied"
                  /\ last.res.items = <<>>
            /\ all =>
                  /\ last.res.kind = "data"
                  /\ Listed(last.res) = DOMAIN orders
                  /\ Len(last.res.items) = Cardinality(DOMAIN orders)
            /\ (\E o \in Listed(last.res) : orders[o].user_id # last.user) => all

\* A principal reassigned to a role with view_own_orders alone lists the
\* orders and gets none of the orders another principal owns
C13_Witness ==
    /\ fresh
    /\ last.op = "view_orders"
    /\ last.order = NoneArg
    /\ last.role # InitRole[last.user]
    /\ Holds(last.role, "view_own_orders")
    /\ ~Holds(last.role, "view_all_orders")
    /\ last.res.kind = "data"
    /\ last.res.items = <<>>
    /\ \E o \in DOMAIN orders : orders[o].user_id # last.user

\* The two refusals of update_stock
StockDenial == Denied("Access Denied: No permission to update stock")
StockNotFound == NotFound("Product not found")

\* What a step that is the call update_stock(user, product_id, new_stock) does
UpdateStockEffect(user, product_id, new_stock) ==
    LET auth == Holds(userRole[user], "update_product_stock")
        known == product_id \in DOMAIN stock
    IN  /\ stock' # stock => auth /\ known
        /\ (auth /\ known) =>
              /\ stock'[product_id] = new_stock
              /\ \A q \in DOMAIN stock : q # product_id => stock'[q] = stock[q]
              /\ DOMAIN stock' = DOMAIN stock
              /\ last'.res.kind = "ok"
        /\ ~auth =>
              /\ last'.res = StockDenial
              /\ stock' = stock
        /\ (auth /\ ~known) =>
              /\ last'.res = StockNotFound
              /\ stock' = stock
        /\ UNCHANGED <<role_permissions, userRole>>

\* A view_products call that has just returned the products reports, for
\* each product, the stock the inventory holds
ReportsStock ==
    (fresh /\ last.op = "view_products" /\ last.res.kind = "data") =>
        /\ Len(last.res.items) = Cardinality(DOMAIN stock)
        /\ \A i \in 1..Len(last.res.items) :
              /\ last.res.items[i].id = i
              /\ last.res.items[i].stock = stock[i]

\* C14: update_stock(U, pid, n) sets the stock of pid to n, and of no other
\* product, only when U's role at the call holds update_product_stock and pid
\* is a product; without the permission it returns the access denial, whether
\* or not pid is a product, and no stock changes; with the permission and an
\* unknown pid it returns "Product not found", which is not the denial, and
\* no stock changes; no other operation changes a stock, and view_products
\* reports the stock an authorized update_stock has set.
C14_StockUpdateGated ==
    /\ [](ReportsStock /\ StockDenial # StockNotFound)
    /\ [][IF fresh' /\ last'.op = "update_stock" /\ last'.user \in UserIds
          THEN LET user == last'.user
               IN  /\ \A product_id \in ProductArgs, new_stock \in StockArgs :
                         CallUpdateStock(user, product_id, new_stock) =>
                             UpdateStockEffect(user, product_id, new_stock)
                   /\ (\A product_id \in ProductArgs, new_stock \in StockArgs :
                         ~CallUpdateStock(user, product_id, new_stock)) => stock' = stock
          ELSE stock' = stock]_vars

\* After an authorized update of product 1, a principal without
\* update_product_stock has just been denied and the stock is as the
\* authorized update left it
C14_Witness ==
    /\ fresh
    /\ last.op = "update_stock"
    /\ ~Holds(last.role, "update_product_stock")
    /\ last.res = StockDenial
    /\ \E n \in StockArgs : stock[1] = n /\ n # InitStock[1]
    /\ \A q \in DOMAIN stock : q # 1 => stock[q] = InitStock[q]

====
